---- MODULE Spec2Model ----
(***************************************************************************)
(* The task queue of sokrates: TaskProcessor (task_queue/processor.py)     *)
(* driving SequentialTaskExecutor over the tasks of the Queue Store, with  *)
(* the ErrorHandler's retry policy.                                        *)
(*                                                                         *)
(* TaskQueueManager, StatusTracker and ErrorHandler are imported by        *)
(* processor.py (lines 14-16) but their files are not part of the source   *)
(* tree; they are modelled from the specification (sections 4.1-4.3).      *)
(***************************************************************************)
EXTENDS Integers, Sequences, FiniteSets, TLC

(* ---------------------------------------------------------------- bounds *)
NumTasks == 2          \* task records that can be enqueued
MaxPasses == 2         \* invocations of process_tasks
MaxRetriesBound == 3   \* largest configured maximum of attempts
MaxProbe == 6          \* largest attempt number handed to the Failure Policy
NumControllers == 2    \* Process Controller processes that can run at a time
MaxDaemons == 2        \* daemon processes that can be forked
MaxInvocations == 3    \* invocations of the Process Controller
MaxSubtasks == 2       \* subtasks in a task file
MaxProcs == 3          \* processes in the process table that is searched

TaskIds == 1..NumTasks

VARIABLES
    \* Queue Store
    queue,            \* task ids in the order they were enqueued (created_at)
    status,           \* persisted status of each task
    result,           \* persisted result text of each task
    attempt_count,    \* persisted number of execution attempts of each task
    updated_at,       \* persisted time of the last status update of each task
    handle,           \* the Queue Store's resource handle: "open" | "closed"
    \* ErrorHandler
    max_retries,      \* the configured maximum of attempts
    error_log,        \* the append-only error records
    \* TaskProcessor.process_tasks / _process_single_task_file
    pc,               \* position of the Processor
    limit,            \* argument of the running process_tasks call
    pending_tasks,    \* the fetched list
    idx,              \* position of the for loop in pending_tasks
    current_attempt,  \* local of the retry loop
    \* what happened (history of the running pass and of the task in hand)
    passes,           \* process_tasks invocations so far
    closeCalls,       \* manager.close() calls so far
    pass_exit,        \* how the last finished pass left its try block
    started,          \* tasks of this pass whose handling began, in order
    handled,          \* tasks of this pass whose handling returned
    execHist,         \* outcome of each executor invocation for the task in hand
    sleeps,           \* backoff delays slept for the task in hand
    handLog,          \* attempt numbers logged for the task in hand
    termWrites,       \* terminal status writes made for the task in hand
    storeFault,       \* a status update raised for the task in hand
    exitKind,         \* how the handling of the task in hand ended
    \* Failure Policy applied to free inputs
    probe,
    \* Process Controller (cli/task_queue/sokrates_daemon.py) and the host
    daemons,          \* state of each daemon process, by PID
    ctl,              \* each controller process: its command and its locals
    invocations,      \* controller invocations so far
    startsOnly,       \* every invocation so far was a start
    overlap,          \* a controller was invoked while another was running
    discoveryFailed,  \* a process-table scan raised
    \* Daemon.run, the polling loop around the Processor
    dloop,            \* position of the loop
    napped,           \* seconds slept since process_tasks last returned
    orphans,          \* tasks whose executor was running when the daemon died
    \* SequentialTaskExecutor.execute_tasks_from_file
    tasks,            \* the content of the task file
    step_ok,          \* whether the subtask step succeeds, per subtask
    results,          \* the summary being built
    subidx,           \* position of the for loop in the subtasks
    ran,              \* positions the subtask step was run for, in order
    exec_raised,      \* execute_tasks_from_file raised instead of returning
    \* _search_for_pid_by_process_names applied to a process table
    cmdlines,         \* name fragments in each process's command line, by PID
    scanned,          \* the search has returned
    scan_ret          \* what it returned

vars == << queue, status, result, attempt_count, updated_at, handle,
           max_retries, error_log, pc, limit, pending_tasks, idx,
           current_attempt, passes, closeCalls, pass_exit, started, handled,
           execHist, sleeps, handLog, termWrites, storeFault, exitKind,
           probe, daemons, ctl, invocations, startsOnly, overlap,
           discoveryFailed, dloop, napped, orphans, tasks, step_ok, results,
           subidx, ran, exec_raised, cmdlines, scanned, scan_ret >>

loopVars == << dloop, napped, orphans >>
execVars == << tasks, step_ok, results, subidx, ran, exec_raised >>
scanVars == << cmdlines, scanned, scan_ret >>

ctlVars == << daemons, ctl, invocations, startsOnly, overlap,
             discoveryFailed >>
procVars == << queue, status, result, attempt_count, updated_at, handle,
               max_retries, error_log, pc, limit, pending_tasks, idx,
               current_attempt, passes, closeCalls, pass_exit, started,
               handled, execHist, sleeps, handLog, termWrites, storeFault,
               exitKind, probe >>

storeVars == << queue, status, result >>
histVars == << execHist, sleeps, handLog, termWrites, storeFault, exitKind >>

(* ------------------------------------------------------------ data model *)
Statuses == {"pending", "in_progress", "completed", "failed", "dead_letter"}
NoLimit == 0   \* limit=None

\* The state table of the Status Tracker.
TransitionTable ==
    { <<"pending", "in_progress">>, <<"in_progress", "completed">>,
      <<"in_progress", "failed">>, <<"failed", "in_progress">>,
      <<"failed", "completed">>, <<"failed", "dead_letter">>,
      <<"failed", "failed">> }

RECURSIVE Pow2(_)
Pow2(n) == IF n <= 0 THEN 1 ELSE 2 * Pow2(n - 1)

\* (variant: the status filter forgotten)
SelectAll(q, st) == q

RECURSIVE SelectPending(_, _)
SelectPending(q, st) ==
    IF q = << >> THEN << >>
    ELSE IF st[Head(q)] = "pending"
         THEN << Head(q) >> \o SelectPending(Tail(q), st)
         ELSE SelectPending(Tail(q), st)

Take(s, n) == IF Len(s) <= n THEN s ELSE SubSeq(s, 1, n)

(* --------------------------------------------- Queue Store, Status Tracker *)
\* TaskQueueManager.get_pending_tasks(limit)
get_pending_tasks(lim) ==
    LET all == SelectPending(queue, status)
    IN  IF lim = NoLimit THEN all ELSE Take(all, lim)

\* (variant: the write is lost)
update_status_lost(task_id, new_status) == status

\* StatusTracker.update_status(task_id, new_status, result): the new persisted
\* status and result maps.
update_status(task_id, new_status) == [status EXCEPT ![task_id] = new_status]
update_result(task_id, text) == [result EXCEPT ![task_id] = text]
\* ... and refreshes updated_at: the store's clock has moved on since the
\* last update of the record
refresh_updated_at(task_id) == [updated_at EXCEPT ![task_id] = @ + 1]

(* ------------------------------------------------------- Failure Policy *)
BaseDelay == 1

\* (variant: a policy that never gives up)
handle_failure_always_retry(attempt, maximum) == "retry"

\* ErrorHandler.handle_failure(manager, task_id, message, attempt): retry while
\* the attempt is below the maximum, dead_letter from the maximum on (with a
\* maximum of 3 no fourth attempt is made)
handle_failure(attempt, maximum) ==
    IF attempt < maximum THEN "retry" ELSE "dead_letter"

\* (variant: a delay that shrinks with the attempt number)
get_retry_delay_shrinking(attempt) == BaseDelay * Pow2(3 - attempt)

\* ErrorHandler.get_retry_delay(attempt): base * 2^(attempt-1)
get_retry_delay(attempt) == BaseDelay * Pow2(attempt - 1)

\* an error log that keeps the latest record only
log_error_overwriting(log, task_id, attempt) ==
    << [task_id |-> task_id, attempt |-> attempt] >>

\* ErrorHandler.log_error(task_id, message, attempt)
log_error(log, task_id, attempt) ==
    Append(log, [task_id |-> task_id, attempt |-> attempt])

(* ------------------------------------------- decisions of processor.py *)
\* current_attempt = 1 on entering the except clause
FirstAttempt == 1

\* (variant: the increment forgotten)
NextAttemptStuck(a) == a

\* current_attempt += 1 after a failed retry
NextAttempt(a) == a + 1

\* next_action = self.error_handler.handle_failure(..., current_attempt)
NextAction(a) == handle_failure(a, max_retries)

\* (variant: the delay of the first attempt every time)
BackoffDelayFirst(a) == get_retry_delay(FirstAttempt)

\* time.sleep(self.error_handler.get_retry_delay(current_attempt))
BackoffDelay(a) == get_retry_delay(a)

\* the attempt number handed to log_error
LoggedAttempt(a) == a

\* where the branches on next_action lead: retry goes on in the loop, the
\* other two break out of it
AfterDecision(next_action) ==
    IF next_action = "retry" THEN "sleep" ELSE "between"

\* what the dead_letter and fail branches persist: they log a message and
\* break, no status update is made
PersistOnGiveUp(st, task_id, next_action) == st

\* a retry is attempted again only after the executor or the status update of
\* the retry raised; a successful retry breaks
AfterRetrySuccess == "between"

\* (variant: the limit not handed on)
FetchLimitDropped == NoLimit

\* get_pending_tasks(limit): the limit of process_tasks is handed on
FetchLimit == limit

\* `return` inside the try block still runs the finally clause
AfterEmptyFetch == "finally"

\* (variant: close() at the end of the try block instead of in finally)
AfterExceptNoFinally == "idle"

\* the except clause of process_tasks is followed by the finally clause
AfterExcept == "finally"

\* (variant: the loop does not move on to the next task)
NextIndexStuck(i) == i

\* the for loop moves on to the next element of pending_tasks
NextIndex(i) == i + 1

\* the for loop: the next task, or the end of the try block
AfterTask(i, n) == IF i < n THEN "construct" ELSE "finally"

\* finally: self.manager.close()
CloseHandle(h) == "closed"

\* the result texts of the two completed updates
FirstResult == << "first", 0 >>
RetryResult(a) == << "retry", a >>
NoResult == << "none", 0 >>

(* ------------------------------ SequentialTaskExecutor's task file and summary *)
\* JSON values of the fields read from a subtask: null (the key is missing),
\* an integer, or a string given by its length
JsonNull == [t |-> "null", n |-> 0]
JsonInt(i) == [t |-> "int", n |-> i]
JsonStr(len) == [t |-> "str", n |-> len]

\* Python's truth value of such a value
Truthy(v) == v.t # "null" /\ v.n # 0

IdValues == {JsonNull, JsonInt(0), JsonInt(1), JsonInt(2)}
DescriptionValues == {JsonNull, JsonStr(0), JsonStr(1)}
Subtasks == [id : IdValues, description : DescriptionValues]
MainTasks == {JsonNull, JsonStr(1)}

SeqsUpTo(S, n) == UNION { [1..k -> S] : k \in 0..n }

\* a loop that never skips
SkippedNever(subtask) == FALSE

\* if not task_id or not task_desc
Skipped(subtask) == ~Truthy(subtask.id) \/ ~Truthy(subtask.description)

EmptyResults ==
    [total_tasks |-> 0, successful_tasks |-> 0, failed_tasks |-> 0,
     details |-> << >>]

\* execute_tasks_from_file is not running
NoExecution ==
    /\ tasks = [task |-> JsonNull, subtasks |-> << >>]
    /\ step_ok = << >>
    /\ results = EmptyResults
    /\ subidx = 0
    /\ ran = << >>
    /\ exec_raised = FALSE

\* no process-table search under way
NoScan ==
    /\ cmdlines = << >>
    /\ scanned = FALSE
    /\ scan_ret = 0

(* ------------------------------------- the Process Controller and its host *)
Controllers == 1..NumControllers
Pids == 1..MaxDaemons
None == 0          \* no PID
StopTimeout == 10  \* seconds stop_daemon waits before the forced kill
ClockStep == 5     \* seconds the clock is seen to advance by between two polls

Alive(p) == daemons[p] \in {"running", "terminating"}

\* the PIDs the process-table scan lists: the live daemon processes
pgrep == { p \in Pids : Alive(p) }

\* discovery that never sees a daemon
find_daemon_pid_blind == None

\* the first PID the scan lists, None when it lists nothing
find_daemon_pid ==
    IF pgrep = {} THEN None
    ELSE CHOOSE p \in pgrep : \A q \in pgrep : p <= q

\* start_daemon that forks whatever discovery returned
StartForksAlways(pid) == TRUE

\* start_daemon forks only when discovery returned no PID
StartForks(pid) == pid = None

\* stop_daemon that goes on without a PID
StopGivesUpNever(pid) == FALSE

\* stop_daemon returns False when it has no PID to signal
StopGivesUp(pid) == pid = None

\* stop_daemon that kills without waiting
TimedOutAtOnce(elapsed) == TRUE

\* the test that ends the wait for a graceful exit
TimedOut(elapsed) == elapsed > StopTimeout

\* the exit code main derives from a command's return value
ExitCode(success) == IF success THEN 0 ELSE 1

IdleController ==
    [op |-> "none", pc |-> "idle", arg |-> None, pid |-> None, elapsed |-> 0,
     ret |-> "none", exit |-> 0, sent |-> << >>, found |-> None,
     forked |-> None, seenAliveLate |-> FALSE]

\* no Daemon loop: the Processor is called directly
NoDaemon ==
    /\ dloop = "off"
    /\ napped = 0
    /\ orphans = {}

ControllerInit ==
    /\ daemons = [p \in Pids |-> "none"]
    /\ ctl = [c \in Controllers |-> IdleController]
    /\ invocations = 0
    /\ startsOnly = TRUE
    /\ overlap = FALSE
    /\ discoveryFailed = FALSE

(* ------------------------------------------------------------------ Init *)
NoProbe == [a |-> 1, b |-> 1, action |-> "none", da |-> 0, db |-> 0]

ProcessorInit ==
    /\ queue = << >>
    /\ status = [t \in TaskIds |-> "absent"]
    /\ result = [t \in TaskIds |-> NoResult]
    /\ attempt_count = [t \in TaskIds |-> 0]
    /\ updated_at = [t \in TaskIds |-> 0]
    /\ handle = "open"
    /\ error_log = << >>
    /\ pc = "idle"
    /\ limit = NoLimit
    /\ pending_tasks = << >>
    /\ idx = 0
    /\ current_attempt = 0
    /\ passes = 0
    /\ closeCalls = 0
    /\ pass_exit = "none"
    /\ started = << >>
    /\ handled = << >>
    /\ execHist = << >>
    /\ sleeps = << >>
    /\ handLog = << >>
    /\ termWrites = 0
    /\ storeFault = FALSE
    /\ exitKind = "none"
    /\ ControllerInit

Init ==
    /\ ProcessorInit
    /\ max_retries \in 1..MaxRetriesBound
    /\ probe = NoProbe
    /\ NoDaemon
    /\ NoExecution
    /\ NoScan

(* --------------------------------------------------------------- actions *)
\* the limits process_tasks is called with: None, 1, 2
Limits == {NoLimit, 1, 2}

\* (variant: the list walked from its end)
taskReversed == pending_tasks[Len(pending_tasks) + 1 - idx]

\* for task in pending_tasks: the task in hand
\* (variant: the task enqueued last, fetched or not)
task_enqueued_last == queue[Len(queue)]

\* for task in pending_tasks: the task in hand
task == pending_tasks[idx]

\* The external enqueue operation: a new task record in pending. The store
\* hands out task ids in the order of insertion.
Enqueue ==
    /\ Len(queue) < NumTasks
    /\ LET t == Len(queue) + 1
       IN  /\ queue' = Append(queue, t)
           /\ status' = [status EXCEPT ![t] = "pending"]
    /\ UNCHANGED << result, handle, max_retries, error_log, pc, limit,
                    pending_tasks, idx, current_attempt, passes, closeCalls,
                    pass_exit, handled, probe >>
    /\ UNCHANGED histVars
    /\ UNCHANGED << attempt_count, updated_at, started >>
    /\ UNCHANGED ctlVars
    /\ UNCHANGED scanVars
    /\ UNCHANGED execVars
    /\ UNCHANGED loopVars

\* the entry of process_tasks(limit)
process_tasks(lim) ==
    /\ pc = "idle"
    /\ passes < MaxPasses
    /\ pc' = "fetch"
    /\ limit' = lim
    /\ passes' = passes + 1
    /\ pending_tasks' = << >>
    /\ idx' = 0
    /\ handled' = << >>
    /\ pass_exit' = "running"
    /\ UNCHANGED << storeVars, handle, max_retries, error_log,
                    current_attempt, closeCalls, probe >>
    /\ UNCHANGED histVars
    /\ started' = << >>
    /\ UNCHANGED << attempt_count, updated_at >>
    /\ UNCHANGED ctlVars
    /\ UNCHANGED scanVars
    /\ UNCHANGED execVars

\* process_tasks(limit) is called.
StartPass(lim) ==
    /\ process_tasks(lim)
    /\ UNCHANGED loopVars

\* pending_tasks = self.manager.get_pending_tasks(limit)
FetchReturns ==
    /\ pc = "fetch"
    /\ pending_tasks' = get_pending_tasks(FetchLimit)
    /\ IF pending_tasks' = << >>
       THEN /\ pc' = AfterEmptyFetch
            /\ pass_exit' = "empty"
            /\ idx' = idx
       ELSE /\ pc' = "construct"
            /\ pass_exit' = pass_exit
            /\ idx' = 1
    /\ UNCHANGED << storeVars, handle, max_retries, error_log, limit,
                    current_attempt, passes, closeCalls, handled, probe >>
    /\ UNCHANGED histVars
    /\ UNCHANGED << attempt_count, updated_at, started >>
    /\ UNCHANGED ctlVars
    /\ UNCHANGED scanVars
    /\ UNCHANGED execVars
    /\ UNCHANGED loopVars

\* get_pending_tasks raises (storage error)
FetchRaises ==
    /\ pc = "fetch"
    /\ pc' = "except"
    /\ pass_exit' = "fetch_error"
    /\ UNCHANGED << storeVars, handle, max_retries, error_log, limit,
                    pending_tasks, idx, current_attempt, passes, closeCalls,
                    handled, probe >>
    /\ UNCHANGED histVars
    /\ UNCHANGED << attempt_count, updated_at, started >>
    /\ UNCHANGED ctlVars
    /\ UNCHANGED scanVars
    /\ UNCHANGED execVars
    /\ UNCHANGED loopVars

\* executor = SequentialTaskExecutor(...), before the try block
Construct ==
    /\ pc = "construct"
    /\ pc' = "mark"
    /\ execHist' = << >>
    /\ sleeps' = << >>
    /\ handLog' = << >>
    /\ termWrites' = 0
    /\ storeFault' = FALSE
    /\ exitKind' = "none"
    /\ current_attempt' = 0
    /\ UNCHANGED << storeVars, handle, max_retries, error_log, limit,
                    pending_tasks, idx, passes, closeCalls, pass_exit,
                    handled, probe >>
    /\ started' = Append(started, task)
    /\ UNCHANGED << attempt_count, updated_at >>
    /\ UNCHANGED ctlVars
    /\ UNCHANGED scanVars
    /\ UNCHANGED execVars
    /\ UNCHANGED loopVars

\* the constructor raises (Config(), the results directory): the exception
\* leaves _process_single_task_file
ConstructRaises ==
    /\ pc = "construct"
    /\ pc' = "except"
    /\ pass_exit' = "task_error"
    /\ execHist' = << >>
    /\ sleeps' = << >>
    /\ handLog' = << >>
    /\ termWrites' = 0
    /\ storeFault' = FALSE
    /\ exitKind' = "none"
    /\ current_attempt' = 0
    /\ UNCHANGED << storeVars, handle, max_retries, error_log, limit,
                    pending_tasks, idx, passes, closeCalls, handled, probe >>
    /\ started' = Append(started, task)
    /\ UNCHANGED << attempt_count, updated_at >>
    /\ UNCHANGED ctlVars
    /\ UNCHANGED scanVars
    /\ UNCHANGED execVars
    /\ UNCHANGED loopVars

\* self.status_tracker.update_status(task_id, "in_progress")
MarkInProgress ==
    /\ pc = "mark"
    /\ \/ /\ status' = update_status(task, "in_progress")
          /\ updated_at' = refresh_updated_at(task)
          /\ pc' = "exec"
          /\ UNCHANGED << storeFault, current_attempt >>
       \/ /\ storeFault' = TRUE
          /\ current_attempt' = FirstAttempt
          /\ pc' = "log"
          /\ UNCHANGED << status, updated_at >>
    /\ UNCHANGED << queue, result, handle, max_retries, error_log, limit,
                    pending_tasks, idx, passes, closeCalls, pass_exit,
                    handled, execHist, sleeps, handLog, termWrites, exitKind,
                    probe >>
    /\ UNCHANGED << attempt_count, started >>
    /\ UNCHANGED ctlVars
    /\ UNCHANGED scanVars
    /\ UNCHANGED execVars
    /\ UNCHANGED loopVars

\* result = executor.execute_tasks_from_file(file_path)
Execute ==
    /\ pc = "exec"
    /\ \/ /\ execHist' = Append(execHist, TRUE)
          /\ pc' = "complete"
          /\ UNCHANGED current_attempt
       \/ /\ execHist' = Append(execHist, FALSE)
          /\ current_attempt' = FirstAttempt
          /\ pc' = "log"
    /\ UNCHANGED << storeVars, handle, max_retries, error_log, limit,
                    pending_tasks, idx, passes, closeCalls, pass_exit,
                    handled, sleeps, handLog, termWrites, storeFault,
                    exitKind, probe >>
    /\ UNCHANGED << attempt_count, updated_at, started >>
    /\ UNCHANGED ctlVars
    /\ UNCHANGED scanVars
    /\ UNCHANGED execVars
    /\ UNCHANGED loopVars

\* self.status_tracker.update_status(task_id, "completed", result=...)
Complete ==
    /\ pc = "complete"
    /\ \/ /\ status' = update_status(task, "completed")
          /\ updated_at' = refresh_updated_at(task)
          /\ result' = update_result(task, FirstResult)
          /\ termWrites' = termWrites + 1
          /\ exitKind' = "success"
          /\ handled' = Append(handled, task)
          /\ pc' = "between"
          /\ UNCHANGED << storeFault, current_attempt >>
       \/ /\ storeFault' = TRUE
          /\ current_attempt' = FirstAttempt
          /\ pc' = "log"
          /\ UNCHANGED << status, result, updated_at, termWrites, exitKind,
                       handled >>
    /\ UNCHANGED << queue, handle, max_retries, error_log, limit,
                    pending_tasks, idx, passes, closeCalls, pass_exit,
                    execHist, sleeps, handLog, probe >>
    /\ UNCHANGED << attempt_count, started >>
    /\ UNCHANGED ctlVars
    /\ UNCHANGED scanVars
    /\ UNCHANGED execVars
    /\ UNCHANGED loopVars

\* error_info = self.error_handler.log_error(task_id, str(e), current_attempt)
LogError ==
    /\ pc = "log"
    /\ error_log' = log_error(error_log, task, LoggedAttempt(current_attempt))
    /\ handLog' = Append(handLog, LoggedAttempt(current_attempt))
    /\ pc' = "decide"
    /\ UNCHANGED << storeVars, handle, max_retries, limit, pending_tasks, idx,
                    current_attempt, passes, closeCalls, pass_exit, handled,
                    execHist, sleeps, termWrites, storeFault, exitKind,
                    probe >>
    /\ UNCHANGED << attempt_count, updated_at, started >>
    /\ UNCHANGED ctlVars
    /\ UNCHANGED scanVars
    /\ UNCHANGED execVars
    /\ UNCHANGED loopVars

\* next_action = handle_failure(...) and the branch taken on it
Decide ==
    /\ pc = "decide"
    /\ LET next_action == NextAction(current_attempt)
       IN  /\ pc' = AfterDecision(next_action)
           /\ status' = IF next_action = "retry" THEN status
                        ELSE PersistOnGiveUp(status, task, next_action)
           /\ termWrites' = IF status' # status THEN termWrites + 1
                            ELSE termWrites
           /\ exitKind' = IF next_action = "retry" THEN exitKind
                          ELSE next_action
           /\ handled' = IF pc' = "between" THEN Append(handled, task)
                         ELSE handled
    /\ UNCHANGED << queue, result, handle, max_retries, error_log, limit,
                    pending_tasks, idx, current_attempt, passes, closeCalls,
                    pass_exit, execHist, sleeps, handLog, storeFault, probe >>
    /\ UNCHANGED << attempt_count, updated_at, started >>
    /\ UNCHANGED ctlVars
    /\ UNCHANGED scanVars
    /\ UNCHANGED execVars
    /\ UNCHANGED loopVars

\* time.sleep(get_retry_delay(current_attempt))
Sleep ==
    /\ pc = "sleep"
    /\ sleeps' = Append(sleeps, BackoffDelay(current_attempt))
    /\ pc' = "retry_exec"
    /\ UNCHANGED << storeVars, handle, max_retries, error_log, limit,
                    pending_tasks, idx, current_attempt, passes, closeCalls,
                    pass_exit, handled, execHist, handLog, termWrites,
                    storeFault, exitKind, probe >>
    /\ UNCHANGED << attempt_count, updated_at, started >>
    /\ UNCHANGED ctlVars
    /\ UNCHANGED scanVars
    /\ UNCHANGED execVars
    /\ UNCHANGED loopVars

\* the retry: result = executor.execute_tasks_from_file(file_path)
RetryExecute ==
    /\ pc = "retry_exec"
    /\ \/ /\ execHist' = Append(execHist, TRUE)
          /\ pc' = "retry_complete"
          /\ UNCHANGED current_attempt
       \/ /\ execHist' = Append(execHist, FALSE)
          /\ current_attempt' = NextAttempt(current_attempt)
          /\ pc' = "log"
    /\ UNCHANGED << storeVars, handle, max_retries, error_log, limit,
                    pending_tasks, idx, passes, closeCalls, pass_exit,
                    handled, sleeps, handLog, termWrites, storeFault,
                    exitKind, probe >>
    /\ UNCHANGED << attempt_count, updated_at, started >>
    /\ UNCHANGED ctlVars
    /\ UNCHANGED scanVars
    /\ UNCHANGED execVars
    /\ UNCHANGED loopVars

\* the retry's update_status(task_id, "completed", result=...)
RetryComplete ==
    /\ pc = "retry_complete"
    /\ \/ /\ status' = update_status(task, "completed")
          /\ updated_at' = refresh_updated_at(task)
          /\ result' = update_result(task, RetryResult(current_attempt))
          /\ termWrites' = termWrites + 1
          /\ exitKind' = "success"
          /\ pc' = AfterRetrySuccess
          /\ handled' = IF pc' = "between" THEN Append(handled, task)
                        ELSE handled
          /\ UNCHANGED << storeFault, current_attempt >>
       \/ /\ storeFault' = TRUE
          /\ current_attempt' = NextAttempt(current_attempt)
          /\ pc' = "log"
          /\ UNCHANGED << status, result, updated_at, termWrites, exitKind,
                       handled >>
    /\ UNCHANGED << queue, handle, max_retries, error_log, limit,
                    pending_tasks, idx, passes, closeCalls, pass_exit,
                    execHist, sleeps, handLog, probe >>
    /\ UNCHANGED << attempt_count, started >>
    /\ UNCHANGED ctlVars
    /\ UNCHANGED scanVars
    /\ UNCHANGED execVars
    /\ UNCHANGED loopVars

\* time.sleep(1) and the next round of the for loop
Between ==
    /\ pc = "between"
    /\ pc' = AfterTask(idx, Len(pending_tasks))
    /\ idx' = IF pc' = "construct" THEN NextIndex(idx) ELSE idx
    /\ pass_exit' = IF pc' = "construct" THEN pass_exit ELSE "done"
    /\ UNCHANGED << storeVars, handle, max_retries, error_log, limit,
                    pending_tasks, current_attempt, passes, closeCalls,
                    handled, probe >>
    /\ UNCHANGED histVars
    /\ UNCHANGED << attempt_count, updated_at, started >>
    /\ UNCHANGED ctlVars
    /\ UNCHANGED scanVars
    /\ UNCHANGED execVars
    /\ UNCHANGED loopVars

\* except Exception as e: log_message(...)
Except ==
    /\ pc = "except"
    /\ pc' = AfterExcept
    /\ UNCHANGED << storeVars, handle, max_retries, error_log, limit,
                    pending_tasks, idx, current_attempt, passes, closeCalls,
                    pass_exit, handled, probe >>
    /\ UNCHANGED histVars
    /\ UNCHANGED << attempt_count, updated_at, started >>
    /\ UNCHANGED ctlVars
    /\ UNCHANGED scanVars
    /\ UNCHANGED execVars
    /\ UNCHANGED loopVars

\* finally: self.manager.close(), and process_tasks returns: its locals and
\* those of _process_single_task_file are gone
Finally ==
    /\ pc = "finally"
    /\ handle' = CloseHandle(handle)
    /\ closeCalls' = closeCalls + 1
    /\ pc' = "idle"
    /\ limit' = NoLimit
    /\ pending_tasks' = << >>
    /\ idx' = 0
    /\ current_attempt' = 0
    /\ handled' = << >>
    /\ execHist' = << >>
    /\ sleeps' = << >>
    /\ handLog' = << >>
    /\ termWrites' = 0
    /\ storeFault' = FALSE
    /\ exitKind' = "none"
    /\ UNCHANGED << storeVars, max_retries, error_log, passes, pass_exit,
                    probe >>
    /\ started' = << >>
    /\ UNCHANGED << attempt_count, updated_at >>
    /\ UNCHANGED ctlVars
    /\ UNCHANGED scanVars
    /\ UNCHANGED execVars
    /\ UNCHANGED loopVars

Next ==
    \/ Enqueue
    \/ \E lim \in Limits : StartPass(lim)
    \/ FetchReturns
    \/ FetchRaises
    \/ Construct
    \/ ConstructRaises
    \/ MarkInProgress
    \/ Execute
    \/ Complete
    \/ LogError
    \/ Decide
    \/ Sleep
    \/ RetryExecute
    \/ RetryComplete
    \/ Between
    \/ Except
    \/ Finally

Spec == Init /\ [][Next]_vars

(* ------------------------------- the Failure Policy on free attempt numbers *)
PolicyInit ==
    /\ ProcessorInit
    /\ max_retries \in 1..MaxRetriesBound
    /\ probe \in [a : 1..MaxProbe, b : 1..MaxProbe, action : {"none"},
                  da : {0}, db : {0}]
    /\ NoDaemon
    /\ NoExecution
    /\ NoScan

ApplyPolicy ==
    /\ probe.action = "none"
    /\ probe' = [probe EXCEPT !.action = handle_failure(probe.a, max_retries),
                              !.da = get_retry_delay(probe.a),
                              !.db = get_retry_delay(probe.b)]
    /\ UNCHANGED << queue, status, result, handle, max_retries, error_log, pc,
                    limit, pending_tasks, idx, current_attempt, passes,
                    closeCalls, pass_exit, handled >>
    /\ UNCHANGED histVars
    /\ UNCHANGED << attempt_count, updated_at, started >>
    /\ UNCHANGED ctlVars
    /\ UNCHANGED scanVars
    /\ UNCHANGED execVars
    /\ UNCHANGED loopVars

PolicyNext == ApplyPolicy

PolicySpec == PolicyInit /\ [][PolicyNext]_vars

(* ------------------------------------------- the Process Controller's steps *)
Active(c) == ctl[c].pc \notin {"idle", "exited"}
Commands == {"start", "stop", "restart", "status"}
\* a restart that does not stop first
FirstStepStartOnly(op) ==
    CASE op = "start" -> "start_find"
      [] op = "stop" -> "stop_find"
      [] op = "restart" -> "start_find"
      [] op = "status" -> "status_find"

FirstStep(op) ==
    CASE op = "start" -> "start_find"
      [] op = "stop" -> "stop_find"
      [] op = "restart" -> "stop_find"
      [] op = "status" -> "status_find"

\* a restart that gives up when its stop reported failure
ReturnedUnlessFailed(c, r, value) ==
    IF r.op = "restart" /\ r.pc \in {"stop_find", "term", "poll", "kill"}
          /\ value = "True"
    THEN [r EXCEPT !.ret = value, !.pc = "start_find"]
    ELSE [r EXCEPT !.ret = value, !.pc = "exited",
                   !.exit = ExitCode(value \in {"True", "pid"})]

\* a command's function has returned to main, or to restart_daemon
Returned(c, r, value) ==
    IF r.op = "restart" /\ r.pc \in {"stop_find", "term", "poll", "kill"}
    THEN [r EXCEPT !.ret = value, !.pc = "start_find"]
    ELSE [r EXCEPT !.ret = value, !.pc = "exited",
                   !.exit = ExitCode(value \in {"True", "pid"})]

\* main: a new controller process runs one command
Invoke(c, op, arg) ==
    /\ invocations < MaxInvocations
    /\ ~Active(c)
    /\ \A d \in Controllers : d < c => Active(d)
    /\ arg # None => op = "stop"
    /\ ctl' = [ctl EXCEPT ![c] = [IdleController EXCEPT
                   !.op = op, !.arg = arg, !.pid = arg,
                   !.pc = IF op = "stop" /\ arg # None THEN "term"
                          ELSE FirstStep(op)]]
    /\ invocations' = invocations + 1
    /\ startsOnly' = (startsOnly /\ op = "start")
    /\ overlap' = (overlap \/ \E d \in Controllers : d # c /\ Active(d))
    /\ UNCHANGED << daemons, discoveryFailed >>
    /\ UNCHANGED procVars
    /\ UNCHANGED scanVars
    /\ UNCHANGED loopVars
    /\ UNCHANGED execVars

\* start_daemon: discovery, then exit 0 when a daemon was found
StartFind(c, pid) ==
    /\ ctl[c].pc = "start_find"
    /\ ctl' = [ctl EXCEPT ![c] =
                 IF StartForks(pid)
                 THEN [@ EXCEPT !.found = pid, !.pc = "fork"]
                 ELSE [@ EXCEPT !.found = pid, !.pc = "exited",
                                !.exit = 0]]
    /\ UNCHANGED << daemons, invocations, startsOnly, overlap >>
    /\ UNCHANGED procVars
    /\ UNCHANGED scanVars
    /\ UNCHANGED loopVars
    /\ UNCHANGED execVars

StartFindReturns(c) ==
    /\ StartFind(c, find_daemon_pid)
    /\ UNCHANGED discoveryFailed

\* the scan raised: find_daemon_pid logs the error and returns None
StartFindFails(c) ==
    /\ StartFind(c, None)
    /\ discoveryFailed' = TRUE

\* start_daemon: os.fork; the child runs the daemon, the parent returns its PID
Fork(c) ==
    /\ ctl[c].pc = "fork"
    /\ \E p \in Pids :
        /\ daemons[p] = "none"
        /\ \A q \in Pids : q < p => daemons[q] # "none"
        /\ daemons' = [daemons EXCEPT ![p] = "running"]
        /\ ctl' = [ctl EXCEPT ![c] =
                     IF @.op = "restart"
                     THEN [@ EXCEPT !.forked = p, !.ret = "None",
                                    !.pc = "exited", !.exit = ExitCode(FALSE)]
                     ELSE [@ EXCEPT !.forked = p, !.ret = "pid",
                                    !.pc = "exited", !.exit = ExitCode(TRUE)]]
    /\ UNCHANGED << invocations, startsOnly, overlap, discoveryFailed >>
    /\ UNCHANGED procVars
    /\ UNCHANGED scanVars
    /\ UNCHANGED loopVars
    /\ UNCHANGED execVars

\* stop_daemon without a PID: discovery, False when there is nothing to stop
StopFind(c, pid) ==
    /\ ctl[c].pc = "stop_find"
    /\ ctl' = [ctl EXCEPT ![c] =
                 IF StopGivesUp(pid)
                 THEN Returned(c, [@ EXCEPT !.found = pid], "False")
                 ELSE [@ EXCEPT !.found = pid, !.pid = pid, !.pc = "term"]]
    /\ UNCHANGED << daemons, invocations, startsOnly, overlap >>
    /\ UNCHANGED procVars
    /\ UNCHANGED scanVars
    /\ UNCHANGED loopVars
    /\ UNCHANGED execVars

StopFindReturns(c) ==
    /\ StopFind(c, find_daemon_pid)
    /\ UNCHANGED discoveryFailed

StopFindFails(c) ==
    /\ StopFind(c, None)
    /\ discoveryFailed' = TRUE

Signal(sig, p, ok) == [sig |-> sig, pid |-> p, delivered |-> ok]

\* a stop that reports success although the signal could not be delivered
OnSignalErrorIgnored == "True"

\* except Exception as e: the error is printed and stop_daemon returns False
OnSignalError == "False"

\* stop_daemon: os.kill(pid, SIGTERM); the wait starts when it was delivered
Term(c) ==
    /\ ctl[c].pc = "term"
    /\ LET p == ctl[c].pid IN
       IF p \in Pids /\ Alive(p)
       THEN /\ daemons' = [daemons EXCEPT ![p] = "terminating"]
            /\ ctl' = [ctl EXCEPT ![c] =
                         [@ EXCEPT !.sent = Append(@, Signal("SIGTERM", p, TRUE)),
                                   !.elapsed = 0, !.pc = "poll"]]
       ELSE /\ daemons' = daemons
            /\ ctl' = [ctl EXCEPT ![c] =
                         Returned(c, [@ EXCEPT !.sent =
                             Append(@, Signal("SIGTERM", p, FALSE))],
                         OnSignalError)]
    /\ UNCHANGED << invocations, startsOnly, overlap, discoveryFailed >>
    /\ UNCHANGED procVars
    /\ UNCHANGED scanVars
    /\ UNCHANGED loopVars
    /\ UNCHANGED execVars

\* stop_daemon: one round of the wait loop
Poll(c) ==
    /\ ctl[c].pc = "poll"
    /\ LET p == ctl[c].pid
           e == ctl[c].elapsed IN
       IF ~Alive(p)
       THEN ctl' = [ctl EXCEPT ![c] = Returned(c, @, "True")]
       ELSE IF TimedOut(e)
       THEN ctl' = [ctl EXCEPT ![c] =
                      [@ EXCEPT !.pc = "kill",
                                !.seenAliveLate = (e > StopTimeout)]]
       ELSE \E d \in {0, ClockStep} :
              ctl' = [ctl EXCEPT ![c] = [@ EXCEPT !.elapsed = e + d]]
    /\ UNCHANGED << daemons, invocations, startsOnly, overlap, discoveryFailed >>
    /\ UNCHANGED procVars
    /\ UNCHANGED scanVars
    /\ UNCHANGED loopVars
    /\ UNCHANGED execVars

\* stop_daemon: os.kill(pid, SIGKILL) after the timeout
Kill(c) ==
    /\ ctl[c].pc = "kill"
    /\ LET p == ctl[c].pid IN
       IF Alive(p)
       THEN /\ daemons' = [daemons EXCEPT ![p] = "dead"]
            /\ ctl' = [ctl EXCEPT ![c] =
                         Returned(c, [@ EXCEPT !.sent =
                             Append(@, Signal("SIGKILL", p, TRUE))], "True")]
       ELSE /\ daemons' = daemons
            /\ ctl' = [ctl EXCEPT ![c] =
                         Returned(c, [@ EXCEPT !.sent =
                             Append(@, Signal("SIGKILL", p, FALSE))],
                         OnSignalError)]
    /\ UNCHANGED << invocations, startsOnly, overlap, discoveryFailed >>
    /\ UNCHANGED procVars
    /\ UNCHANGED scanVars
    /\ UNCHANGED loopVars
    /\ UNCHANGED execVars

\* check_status: discovery, True when a daemon was found
StatusFind(c, pid) ==
    /\ ctl[c].pc = "status_find"
    /\ ctl' = [ctl EXCEPT ![c] =
                 Returned(c, [@ EXCEPT !.found = pid],
                          IF pid # None THEN "True" ELSE "False")]
    /\ UNCHANGED << daemons, invocations, startsOnly, overlap >>
    /\ UNCHANGED procVars
    /\ UNCHANGED scanVars
    /\ UNCHANGED loopVars
    /\ UNCHANGED execVars

StatusFindReturns(c) ==
    /\ StatusFind(c, find_daemon_pid)
    /\ UNCHANGED discoveryFailed

StatusFindFails(c) ==
    /\ StatusFind(c, None)
    /\ discoveryFailed' = TRUE

\* a daemon that received SIGTERM exits
DaemonExits(p) ==
    /\ daemons[p] = "terminating"
    /\ daemons' = [daemons EXCEPT ![p] = "dead"]
    /\ UNCHANGED << ctl, invocations, startsOnly, overlap, discoveryFailed >>
    /\ UNCHANGED procVars
    /\ UNCHANGED scanVars
    /\ UNCHANGED loopVars
    /\ UNCHANGED execVars

ControllerNext ==
    \/ \E c \in Controllers, op \in Commands, arg \in {None} \cup Pids :
           Invoke(c, op, arg)
    \/ \E c \in Controllers : StartFindReturns(c)
    \/ \E c \in Controllers : StartFindFails(c)
    \/ \E c \in Controllers : Fork(c)
    \/ \E c \in Controllers : StopFindReturns(c)
    \/ \E c \in Controllers : StopFindFails(c)
    \/ \E c \in Controllers : Term(c)
    \/ \E c \in Controllers : Poll(c)
    \/ \E c \in Controllers : Kill(c)
    \/ \E c \in Controllers : StatusFindReturns(c)
    \/ \E c \in Controllers : StatusFindFails(c)
    \/ \E p \in Pids : DaemonExits(p)

\* the host before any controller ran; the processor is not running
ControllerSpecInit ==
    /\ ProcessorInit
    /\ max_retries = MaxRetriesBound
    /\ probe = NoProbe
    /\ NoDaemon
    /\ NoExecution
    /\ NoScan

ControllerSpec == ControllerSpecInit /\ [][ControllerNext]_vars

(* --------------------------------------------- the Daemon's polling loop *)
DEFAULT_TASK_QUEUE_DAEMON_PROCESSING_INTERVAL == 15

\* a loop that ends when process_tasks had to catch an exception
DaemonAfterPassStopOnError(exit) ==
    IF exit \in {"fetch_error", "task_error"} THEN "stopped" ELSE "call"

\* the loop goes on whatever happened in the iteration
DaemonAfterPass(exit) == "call"

\* the time the loop sleeps between two iterations
NapLength == DEFAULT_TASK_QUEUE_DAEMON_PROCESSING_INTERVAL

\* the maximum of attempts the daemon's Failure Policy is configured with
DaemonMaxRetries == 2

\* a daemon process has started: its Processor is constructed, no pass yet
DaemonInit ==
    /\ ProcessorInit
    /\ max_retries = DaemonMaxRetries
    /\ probe = NoProbe
    /\ dloop = "start"
    /\ napped = 0
    /\ orphans = {}
    /\ NoExecution
    /\ NoScan

\* the loop calls process_tasks()
DaemonCall ==
    /\ dloop \in {"start", "call"}
    /\ process_tasks(NoLimit)
    /\ dloop' = "pass"
    /\ napped' = 0
    /\ UNCHANGED orphans

\* process_tasks returned; the loop sleeps the interval
DaemonSleep ==
    /\ dloop = "pass"
    /\ pc = "idle"
    /\ dloop' = DaemonAfterPass(pass_exit)
    /\ napped' = NapLength
    /\ UNCHANGED orphans
    /\ UNCHANGED procVars
    /\ UNCHANGED scanVars
    /\ UNCHANGED ctlVars
    /\ UNCHANGED execVars

ExecutorRunning == pc \in {"exec", "retry_exec"}

\* a signal arrives during an executor invocation: the daemon process is
\* terminated at once
DaemonKilled ==
    /\ dloop = "pass"
    /\ ExecutorRunning
    /\ dloop' = "dead"
    /\ orphans' = orphans \cup {task}
    /\ pc' = "dead"
    /\ handle' = "closed"
    /\ limit' = NoLimit
    /\ pending_tasks' = << >>
    /\ idx' = 0
    /\ current_attempt' = 0
    /\ started' = << >>
    /\ handled' = << >>
    /\ execHist' = << >>
    /\ sleeps' = << >>
    /\ handLog' = << >>
    /\ termWrites' = 0
    /\ storeFault' = FALSE
    /\ exitKind' = "none"
    /\ UNCHANGED << storeVars, attempt_count, updated_at, max_retries,
                    error_log, passes, closeCalls, pass_exit, probe, napped >>
    /\ UNCHANGED ctlVars
    /\ UNCHANGED scanVars
    /\ UNCHANGED execVars

\* a new daemon process is started: TaskProcessor() opens the store anew
DaemonStarted ==
    /\ dloop = "dead"
    /\ dloop' = "start"
    /\ pc' = "idle"
    /\ handle' = "open"
    /\ napped' = 0
    /\ UNCHANGED << storeVars, attempt_count, updated_at, max_retries,
                    error_log, limit, pending_tasks, idx, current_attempt,
                    passes, closeCalls, pass_exit, started, handled, probe,
                    orphans >>
    /\ UNCHANGED histVars
    /\ UNCHANGED ctlVars
    /\ UNCHANGED scanVars
    /\ UNCHANGED execVars

\* what the daemon process does by itself
DaemonStep ==
    \/ DaemonCall
    \/ DaemonSleep
    \/ FetchReturns
    \/ FetchRaises
    \/ Construct
    \/ ConstructRaises
    \/ MarkInProgress
    \/ Execute
    \/ Complete
    \/ LogError
    \/ Decide
    \/ Sleep
    \/ RetryExecute
    \/ RetryComplete
    \/ Between
    \/ Except
    \/ Finally

DaemonNext ==
    \/ DaemonStep
    \/ Enqueue
    \/ DaemonKilled
    \/ DaemonStarted

\* a daemon that is not killed keeps taking steps
DaemonSpec == DaemonInit /\ [][DaemonNext]_vars /\ WF_vars(DaemonStep)

(* ------------------------------------ execute_tasks_from_file, step by step *)
ExecutorInit ==
    /\ ProcessorInit
    /\ max_retries = MaxRetriesBound
    /\ probe = NoProbe
    /\ NoDaemon
    /\ tasks \in [task : MainTasks, subtasks : SeqsUpTo(Subtasks, MaxSubtasks)]
    /\ step_ok \in [1..Len(tasks.subtasks) -> BOOLEAN]
    /\ results = EmptyResults
    /\ subidx = 0
    /\ ran = << >>
    /\ exec_raised = FALSE
    /\ NoScan

subtask == tasks.subtasks[subidx]
Detail(id, st) == [task_id |-> id, status |-> st]

\* the file is loaded and the summary is set up
ExecLoad ==
    /\ subidx = 0
    /\ ~exec_raised
    /\ results' = [EmptyResults EXCEPT !.total_tasks = Len(tasks.subtasks)]
    /\ subidx' = 1
    /\ UNCHANGED << tasks, step_ok, ran, exec_raised >>
    /\ UNCHANGED procVars
    /\ UNCHANGED scanVars
    /\ UNCHANGED ctlVars
    /\ UNCHANGED loopVars

\* FileHelper.read_json_file raised: the file is missing or is not JSON;
\* execute_tasks_from_file raises ValueError
ExecLoadRaises ==
    /\ subidx = 0
    /\ ~exec_raised
    /\ exec_raised' = TRUE
    /\ UNCHANGED << tasks, step_ok, results, subidx, ran >>
    /\ UNCHANGED procVars
    /\ UNCHANGED scanVars
    /\ UNCHANGED ctlVars
    /\ UNCHANGED loopVars

\* a subtask without id or description: a "skipped" detail, then continue
ExecSkip ==
    /\ subidx \in 1..Len(tasks.subtasks)
    /\ Skipped(subtask)
    /\ results' = [results EXCEPT
                     !.details = Append(@, Detail(subtask.id, "skipped"))]
    /\ subidx' = subidx + 1
    /\ UNCHANGED << tasks, step_ok, ran, exec_raised >>
    /\ UNCHANGED procVars
    /\ UNCHANGED scanVars
    /\ UNCHANGED ctlVars
    /\ UNCHANGED loopVars

\* the subtask step returned
ExecStepSucceeds ==
    /\ subidx \in 1..Len(tasks.subtasks)
    /\ ~Skipped(subtask)
    /\ step_ok[subidx]
    /\ ran' = Append(ran, subidx)
    /\ results' = [results EXCEPT
                     !.successful_tasks = @ + 1,
                     !.details = Append(@, Detail(subtask.id, "completed"))]
    /\ subidx' = subidx + 1
    /\ UNCHANGED << tasks, step_ok, exec_raised >>
    /\ UNCHANGED procVars
    /\ UNCHANGED scanVars
    /\ UNCHANGED ctlVars
    /\ UNCHANGED loopVars

\* a loop that a raising subtask ends
AfterRaiseStop(i) == Len(tasks.subtasks) + 1

\* except Exception as e: the failure is counted and the for loop goes on
\* with the next subtask
AfterRaise(i) == i + 1

\* the subtask step raised
ExecStepRaises ==
    /\ subidx \in 1..Len(tasks.subtasks)
    /\ ~Skipped(subtask)
    /\ ~step_ok[subidx]
    /\ ran' = Append(ran, subidx)
    /\ results' = [results EXCEPT
                     !.failed_tasks = @ + 1,
                     !.details = Append(@, Detail(subtask.id, "failed"))]
    /\ subidx' = AfterRaise(subidx)
    /\ UNCHANGED << tasks, step_ok, exec_raised >>
    /\ UNCHANGED procVars
    /\ UNCHANGED scanVars
    /\ UNCHANGED ctlVars
    /\ UNCHANGED loopVars

ExecutorNext ==
    \/ ExecLoad
    \/ ExecLoadRaises
    \/ ExecSkip
    \/ ExecStepSucceeds
    \/ ExecStepRaises

ExecutorSpec == ExecutorInit /\ [][ExecutorNext]_vars

\* execute_tasks_from_file has returned its summary
ExecReturned == subidx = Len(tasks.subtasks) + 1

(* ---------------------------------------------------------------- claims *)
AllRaised(h) == \A i \in 1..Len(h) : h[i] = FALSE
HandlingReturned == pc = "between"

\* C1: every change of a task's persisted status is a transition of the state
\* table; the Processor never causes any other status change.
C1_StatusFollowsTable ==
    [][\A t \in TaskIds :
          (status[t] # "absent" /\ status'[t] # status[t])
              => << status[t], status'[t] >> \in TransitionTable]_vars

\* C2: when the handling of a task has returned, whatever the executor did
\* (every status update having worked), exactly one terminal status write
\* (completed, failed or dead_letter) was made for it: never zero, never more
\* than one.
C2_OneTerminalWrite == (HandlingReturned /\ ~storeFault) => termWrites = 1

\* C3: when the Failure Policy answered dead_letter or fail (every status
\* update having worked), that status is persisted for the task before the
\* Processor moves on; the task is not left in in_progress.
C3_GiveUpPersisted ==
    (HandlingReturned /\ ~storeFault /\ exitKind \in {"dead_letter", "fail"})
        => status[task] = exitKind

\* C4: an error raised while handling one task never keeps the remaining
\* fetched tasks from being processed: when the pass is over, the for loop
\* has reached the last fetched task.
C4_ErrorsIsolated ==
    (pc = "finally" /\ pending_tasks # << >>) => idx = Len(pending_tasks)

\* C5: every invocation of process_tasks has released the Queue Store handle
\* when it returns, on every exit path: one close() per invocation.
C5_HandleReleased ==
    /\ (pc = "idle" /\ passes > 0) => (handle = "closed" /\ closeCalls = passes)
    /\ pc # "idle" => closeCalls = passes - 1

C5_Witness ==
    pc = "idle" /\ passes = 2 /\ pass_exit = "task_error" /\ closeCalls = 2

\* C6: the retry loop of a task is bounded: at most max_retries executor
\* invocations and max_retries rounds of the loop (one error record each) are
\* made for the task, and the handling then ends with success, dead_letter or
\* fail.
C6_RetriesBounded ==
    /\ Len(execHist) <= max_retries
    /\ Len(handLog) <= max_retries
    /\ current_attempt <= max_retries
    /\ HandlingReturned => exitKind \in {"success", "dead_letter", "fail"}

C6_Witness ==
    /\ HandlingReturned
    /\ max_retries = MaxRetriesBound
    /\ Len(execHist) = max_retries
    /\ AllRaised(execHist)
    /\ exitKind = "dead_letter"

\* C7: with a maximum of 3 attempts and an executor that raises on every
\* invocation, handling ends with status dead_letter, exactly 3 error records
\* and exactly 3 executor invocations.
C7_ScenarioC ==
    (HandlingReturned /\ max_retries = 3 /\ ~storeFault
        /\ execHist # << >> /\ AllRaised(execHist))
        => /\ status[task] = "dead_letter"
           /\ Len(handLog) = 3
           /\ Len(execHist) = 3

\* C8: with a maximum of 3 attempts and an executor that raises on its first
\* and second invocation and succeeds on its third (status updates working),
\* handling ends with status completed, exactly 2 error records, numbered 1
\* and 2, and the delay slept before the third invocation is strictly greater
\* than the one slept before the second.
C8_ScenarioB ==
    (HandlingReturned /\ max_retries = 3 /\ ~storeFault
        /\ execHist = << FALSE, FALSE, TRUE >>)
        => /\ status[task] = "completed"
           /\ handLog = << 1, 2 >>
           /\ Len(error_log) >= 2
           /\ SubSeq(error_log, Len(error_log) - 1, Len(error_log))
                 = << [task_id |-> task, attempt |-> 1],
                      [task_id |-> task, attempt |-> 2] >>
           /\ Len(sleeps) = 2
           /\ sleeps[1] < sleeps[2]

C8_Witness ==
    /\ HandlingReturned /\ max_retries = 3 /\ ~storeFault
    /\ execHist = << FALSE, FALSE, TRUE >>
    /\ status[task] = "completed"

\* C9: handle_failure returns retry for every attempt strictly below the
\* maximum, dead_letter for every attempt above it, and never retry above it.
C9_HandleFailure ==
    probe.action # "none"
        => /\ probe.a < max_retries => probe.action = "retry"
           /\ probe.a > max_retries => probe.action = "dead_letter"
           /\ probe.a > max_retries => probe.action # "retry"

C9_Witness ==
    probe.action = "dead_letter" /\ probe.a > max_retries /\ max_retries = 3

\* C10: get_retry_delay is monotonically non-decreasing: for attempts a <= b,
\* get_retry_delay(a) <= get_retry_delay(b).
C10_DelayMonotone ==
    (probe.action # "none" /\ probe.a <= probe.b) => probe.da <= probe.db

C10_Witness ==
    probe.action # "none" /\ probe.a = 2 /\ probe.b = 5 /\ probe.da < probe.db

\* C11: after a task has been handled (every status update having worked),
\* its persisted attempt_count equals the number of executor invocations made
\* for it.
C11_AttemptCountPersisted ==
    (HandlingReturned /\ ~storeFault) => attempt_count[task] = Len(execHist)

\* the state right after the fetch of a pass returned a non-empty list
JustFetched == pc = "construct" /\ started = << >>

\* C12: get_pending_tasks never returns a task whose persisted status is not
\* pending: right after the fetch, whatever status updates came before, every
\* fetched task is pending.
C12_OnlyPendingFetched ==
    JustFetched
        => \A i \in 1..Len(pending_tasks) : status[pending_tasks[i]] = "pending"

C12_Witness ==
    /\ JustFetched
    /\ passes = 2
    /\ status[1] \in {"completed", "in_progress"}
    /\ pending_tasks = << 2 >>

\* positions of the queue that hold a pending task
PendingPositions == { i \in 1..Len(queue) : status[queue[i]] = "pending" }
\* the j-th oldest pending task
NthPending(j) ==
    queue[CHOOSE i \in PendingPositions :
              Cardinality({ k \in PendingPositions : k <= i }) = j]
Min(a, b) == IF a <= b THEN a ELSE b

\* C13: the fetch returns the pending tasks oldest-enqueued first: with a
\* limit exactly the min(limit, number of pending tasks) oldest ones, without
\* a limit all of them.
C13_OldestFirstCapped ==
    [][(pc = "fetch" /\ pc' \notin {"fetch", "except"})
          => LET n == Cardinality(PendingPositions)
                 k == IF limit = NoLimit THEN n ELSE Min(limit, n)
             IN  /\ Len(pending_tasks') = k
                 /\ \A j \in 1..k : pending_tasks'[j] = NthPending(j)]_vars

C13_Witness ==
    /\ JustFetched
    /\ limit = 1
    /\ pending_tasks = << 1 >>
    /\ Len(queue) = 2
    /\ status[2] = "pending"

\* C14: within a pass the tasks are handled one at a time and in the order of
\* the fetched list: the tasks whose handling began are a prefix of the list,
\* those whose handling returned are a prefix of these, at most one task is
\* in hand, and a task is moved to in_progress only when the handling of every
\* task before it has returned.
C14_InOrderOneAtATime ==
    /\ Len(started) <= Len(pending_tasks)
    /\ started = SubSeq(pending_tasks, 1, Len(started))
    /\ Len(handled) <= Len(started)
    /\ handled = SubSeq(started, 1, Len(handled))
    /\ Len(started) - Len(handled) <= 1
    /\ pc = "mark" => Len(handled) = Len(started) - 1

C14_Witness ==
    /\ pc = "mark"
    /\ started = << 1, 2 >>
    /\ handled = << 1 >>
    /\ status[1] = "in_progress"
    /\ status[2] = "pending"

\* C15: update_status(task_id, s, result) followed immediately by a read of
\* the task returns status s and the given result, and the task's updated_at
\* is later than before: checked at the three update_status calls of the
\* Processor that return.
C15_WriteThenRead ==
    [][/\ (pc = "mark" /\ pc' = "exec")
            => /\ status'[task] = "in_progress"
               /\ updated_at'[task] > updated_at[task]
       /\ (pc = "complete" /\ pc' = "between")
            => /\ status'[task] = "completed"
               /\ result'[task] = FirstResult
               /\ updated_at'[task] > updated_at[task]
       /\ (pc = "retry_complete" /\ pc' = "between")
            => /\ status'[task] = "completed"
               /\ result'[task] = RetryResult(current_attempt)
               /\ updated_at'[task] > updated_at[task]]_vars

C15_Witness ==
    /\ HandlingReturned
    /\ status[task] = "completed"
    /\ result[task] = RetryResult(2)
    /\ updated_at[task] = 2

\* C16: once a task's status is completed or dead_letter it never changes
\* again, and no task record is ever deleted, whatever passes follow.
C16_TerminalIsFinal ==
    [][/\ \A t \in TaskIds :
             status[t] \in {"completed", "dead_letter"}
                 => status'[t] = status[t]
       /\ \A t \in TaskIds : status[t] # "absent" => status'[t] # "absent"
       /\ Len(queue') >= Len(queue)
       /\ SubSeq(queue', 1, Len(queue)) = queue]_vars

C16_Witness ==
    /\ passes = 2
    /\ limit = NoLimit
    /\ pending_tasks = << 2 >>
    /\ HandlingReturned
    /\ status[1] = "completed"
    /\ status[2] = "completed"

RunningDaemons == { p \in Pids : Alive(p) }
Sequential == ~overlap /\ ~discoveryFailed

C18_StartIdempotent ==
    /\ \A c \in Controllers :
          (ctl[c].op = "start" /\ ctl[c].found # None) =>
              /\ ctl[c].forked = None
              /\ ctl[c].pc = "exited"
              /\ ctl[c].exit = 0
              /\ daemons[ctl[c].found] # "none"
    /\ (Sequential /\ startsOnly /\ invocations >= 1
            /\ \A c \in Controllers : ~Active(c)) =>
          RunningDaemons = {1}

\* C18 witness: three starts one after another; the last found the daemon
\* the first had forked.
C18_Witness ==
    /\ Sequential
    /\ startsOnly
    /\ invocations >= 3
    /\ \E c \in Controllers :
          /\ ctl[c].op = "start"
          /\ ctl[c].pc = "exited"
          /\ ctl[c].found = 1
    /\ RunningDaemons = {1}

\* C19: a stop invoked without a PID whose discovery found no process has
\* returned False (it raised nothing), has exited, and has sent no signal to
\* any process.
C19_StopNothingFound ==
    \A c \in Controllers :
       (ctl[c].op = "stop" /\ ctl[c].arg = None /\ ctl[c].pc # "stop_find"
            /\ ctl[c].found = None) =>
           /\ ctl[c].pc = "exited"
           /\ ctl[c].ret = "False"
           /\ ctl[c].exit = 1
           /\ ctl[c].sent = << >>

\* C19 witness: stop without a PID returned while no daemon had ever been
\* started.
C19_Witness ==
    /\ ~discoveryFailed
    /\ \A p \in Pids : daemons[p] = "none"
    /\ \E c \in Controllers :
          /\ ctl[c].op = "stop"
          /\ ctl[c].arg = None
          /\ ctl[c].pc = "exited"
          /\ ctl[c].ret = "False"

\* C20: the first signal a stop sends is SIGTERM; SIGKILL is sent at most
\* once, only after SIGTERM was delivered to the same process and only when a
\* poll made more than StopTimeout seconds after SIGTERM still found the
\* process alive; a stop that saw the process gone within the timeout has
\* sent SIGTERM alone.
C20_TermThenKill ==
    \A c \in Controllers :
       LET s == ctl[c].sent IN
       /\ Len(s) <= 2
       /\ Len(s) >= 1 => s[1].sig = "SIGTERM"
       /\ ctl[c].pc \in {"poll", "kill"} => (Len(s) >= 1 /\ s[1].delivered)
       /\ ctl[c].pc = "kill" => ctl[c].seenAliveLate
       /\ Len(s) = 2 =>
             /\ s[2].sig = "SIGKILL"
             /\ s[1].delivered
             /\ s[2].pid = s[1].pid
             /\ ctl[c].seenAliveLate
             /\ ctl[c].elapsed > StopTimeout
       /\ (ctl[c].op = "stop" /\ ctl[c].ret = "True" /\ ~ctl[c].seenAliveLate) =>
             (Len(s) = 1 /\ daemons[s[1].pid] = "dead")

\* C20 witness: a stop whose target outlived the timeout has sent SIGTERM and
\* then SIGKILL, and another stop saw its target exit within the timeout.
C20_Witness ==
    /\ \E c \in Controllers :
          /\ ctl[c].op = "stop"
          /\ ctl[c].pc = "exited"
          /\ Len(ctl[c].sent) = 2
          /\ ctl[c].sent[2].delivered
    /\ \E c \in Controllers :
          /\ ctl[c].op = "stop"
          /\ ctl[c].pc = "exited"
          /\ ctl[c].ret = "True"
          /\ Len(ctl[c].sent) = 1
          /\ ctl[c].elapsed <= StopTimeout

Exited(c) == ctl[c].pc = "exited"

\* C21: a controller process that has exited has exit code 0 when its
\* operation succeeded and 1 when it failed: start succeeded when a daemon was
\* found or forked, stop when it returned True, status when a daemon was
\* found; a restart that delivered SIGTERM to the old daemon and forked a new
\* one has exit code 0.
C21_ExitCodes ==
    \A c \in Controllers :
       Exited(c) =>
          /\ ctl[c].exit \in {0, 1}
          /\ ctl[c].op = "start" =>
                (ctl[c].exit = 0 <=>
                    (ctl[c].found # None \/ ctl[c].forked # None))
          /\ ctl[c].op = "stop" => (ctl[c].exit = 0 <=> ctl[c].ret = "True")
          /\ ctl[c].op = "status" => (ctl[c].exit = 0 <=> ctl[c].found # None)
          /\ (ctl[c].op = "restart" /\ ctl[c].forked # None
                 /\ Len(ctl[c].sent) >= 1 /\ ctl[c].sent[1].delivered) =>
                ctl[c].exit = 0

\* C22: the Daemon loop never ends by itself, it has slept the configured
\* interval whenever it is about to call process_tasks again, and after every
\* invocation of process_tasks, failing or not, another one follows unless
\* the process is killed (checked for the first MaxPasses invocations).
C22_LoopContinues ==
    /\ [](dloop # "stopped")
    /\ [](dloop = "call" =>
             napped = DEFAULT_TASK_QUEUE_DAEMON_PROCESSING_INTERVAL)
    /\ \A k \in 1..(MaxPasses - 1) :
          (passes = k) ~> (passes > k \/ dloop = "dead")

\* C22 witness: an iteration in which process_tasks caught an exception has
\* ended, the loop has slept and is about to call process_tasks again.
C22_Witness ==
    /\ dloop = "call"
    /\ pass_exit \in {"fetch_error", "task_error"}
    /\ napped = DEFAULT_TASK_QUEUE_DAEMON_PROCESSING_INTERVAL
    /\ passes < MaxPasses

FetchFailed == pass_exit = "fetch_error"

\* C23: when the fetch of a pass raised, the pass handles no task and changes
\* no task's status, it ends with the handle released, and the Daemon then
\* calls process_tasks again.
C23_FetchErrorAbortsPass ==
    /\ []((FetchFailed /\ pc # "idle") =>
             (pc \in {"except", "finally"} /\ started = << >>))
    /\ [][(FetchFailed /\ pc # "idle") =>
             \A t \in TaskIds :
                 status[t] # "absent" => status'[t] = status[t]]_vars
    /\ []((FetchFailed /\ pc = "idle") =>
             (handle = "closed" /\ dloop \in {"pass", "call"}))
    /\ (FetchFailed /\ passes < MaxPasses) ~> (pass_exit = "running")

\* C23 witness: a pass whose fetch raised has ended with a pending task in
\* the store, and the loop is about to call process_tasks again.
C23_Witness ==
    /\ FetchFailed
    /\ pc = "idle"
    /\ dloop = "call"
    /\ passes < MaxPasses
    /\ \E t \in TaskIds : status[t] = "pending"

InPass == pc \notin {"idle", "dead"}

\* C24: in every pass the Daemon makes, the Queue Store handle is open while
\* the pass runs and closed once it has ended.
C24_HandlePerPass ==
    /\ InPass => handle = "open"
    /\ (dloop = "call" /\ pc = "idle") => handle = "closed"

\* C25: every step leaves the error records it found as a prefix of the
\* error records after it; a step that adds to them adds exactly one record,
\* the one of the task in hand and its current attempt, and changes no task
\* status.
C25_ErrorLogAppendOnly ==
    [][/\ Len(error_log') >= Len(error_log)
       /\ SubSeq(error_log', 1, Len(error_log)) = error_log
       /\ error_log' # error_log =>
             /\ Len(error_log') = Len(error_log) + 1
             /\ error_log'[Len(error_log')] =
                    [task_id |-> task, attempt |-> current_attempt]
             /\ status' = status]_vars

\* C25 witness: log_error has just added a record to a log that held two.
C25_Witness ==
    /\ pc = "decide"
    /\ Len(error_log) >= 3
    /\ error_log[Len(error_log)].task_id = task

RanSet == { ran[i] : i \in 1..Len(ran) }
Lacking(st) == st.id = JsonNull \/ st.description = JsonNull

\* C26: a subtask that lacks an id or a description is skipped: the subtask
\* step is not run for it, a detail with status "skipped" is recorded for it,
\* the two counters count exactly the subtasks the step was run for, and the
\* loop goes on to the end of the list, running the step for every subtask it
\* does not skip.
C26_MalformedSkipped ==
    /\ \A j \in 1..Len(results.details) :
          Lacking(tasks.subtasks[j]) =>
             /\ results.details[j] = Detail(tasks.subtasks[j].id, "skipped")
             /\ j \notin RanSet
    /\ results.successful_tasks = Cardinality({ j \in RanSet : step_ok[j] })
    /\ results.failed_tasks = Cardinality({ j \in RanSet : ~step_ok[j] })
    /\ ExecReturned =>
          /\ Len(results.details) = Len(tasks.subtasks)
          /\ \A j \in 1..Len(tasks.subtasks) :
                (j \in RanSet) <=> ~Skipped(tasks.subtasks[j])

\* C26 witness: the first subtask has no id, it was skipped, and the step was
\* run for the second one.
C26_Witness ==
    /\ ExecReturned
    /\ Len(tasks.subtasks) = 2
    /\ tasks.subtasks[1].id = JsonNull
    /\ results.details[1].status = "skipped"
    /\ ran = << 2 >>

WellFormed(st) == st.id # JsonNull /\ Truthy(st.description)

\* C27: for a task file with n subtasks that each have an id and a
\* description and no top-level task, run with a subtask step that always
\* succeeds, the summary returned has total_tasks = n, successful_tasks = n
\* and failed_tasks = 0.
C27_ScenarioA ==
    (/\ ExecReturned
     /\ tasks.task = JsonNull
     /\ \A j \in 1..Len(tasks.subtasks) :
           WellFormed(tasks.subtasks[j]) /\ step_ok[j]) =>
        /\ results.total_tasks = Len(tasks.subtasks)
        /\ results.successful_tasks = Len(tasks.subtasks)
        /\ results.failed_tasks = 0

\* C28: a task whose executor was running when the daemon process was killed
\* is in_progress from then on, and no later pass of any daemon fetches it.
C28_OrphanStaysInProgress ==
    \A t \in orphans :
       /\ status[t] = "in_progress"
       /\ \A i \in 1..Len(pending_tasks) : pending_tasks[i] # t

\* C30: whenever the executor is invoked for a task, first time or retry, the
\* task's persisted status is in_progress.
C30_InProgressBeforeExecutor ==
    ExecutorRunning => status[task] = "in_progress"

DAEMON_PROCESS_NAMES_REVERSED == << "sokrates_daemon", "sokrates-daemon" >>

DAEMON_PROCESS_NAMES == << "sokrates-daemon", "sokrates_daemon" >>

Fragments == { DAEMON_PROCESS_NAMES[i] : i \in DOMAIN DAEMON_PROCESS_NAMES }
ProcIds == 1..MaxProcs

\* a process table: for each running process, the fragments that occur in
\* its command line
ProcessTables ==
    UNION { [running -> SUBSET Fragments] : running \in SUBSET ProcIds }

RECURSIVE Ascending(_)
Ascending(S) ==
    IF S = {} THEN << >>
    ELSE LET least == CHOOSE p \in S : \A q \in S : p <= q
         IN  << least >> \o Ascending(S \ {least})

\* pgrep -f process_name: one line per process whose command line contains
\* the pattern, in ascending PID order; return code 0 when there is one
pgrep_f(process_name) ==
    LET matching == { p \in DOMAIN cmdlines : process_name \in cmdlines[p] }
    IN  [returncode |-> IF matching = {} THEN 1 ELSE 0,
         stdout |-> Ascending(matching)]

\* str.isdigit() of a line of pgrep's output
isdigit(line) == line \in Nat

RECURSIVE FirstDigits(_, _)
FirstDigits(pids, i) ==
    IF i > Len(pids) THEN None
    ELSE IF isdigit(pids[i]) THEN pids[i]
    ELSE FirstDigits(pids, i + 1)

RECURSIVE SearchFrom(_, _)
SearchFrom(process_names, n) ==
    IF n > Len(process_names) THEN None
    ELSE LET proc == pgrep_f(process_names[n])
             pid == IF proc.returncode = 0
                    THEN FirstDigits(proc.stdout, 1) ELSE None
         IN  IF pid # None THEN pid ELSE SearchFrom(process_names, n + 1)

search_for_pid_by_process_names(process_names) == SearchFrom(process_names, 1)

ScanInit ==
    /\ ProcessorInit
    /\ max_retries = MaxRetriesBound
    /\ probe = NoProbe
    /\ NoDaemon
    /\ NoExecution
    /\ cmdlines \in ProcessTables
    /\ scanned = FALSE
    /\ scan_ret = None

\* find_daemon_pid: the search over DAEMON_PROCESS_NAMES returns
Scan ==
    /\ ~scanned
    /\ scanned' = TRUE
    /\ scan_ret' = search_for_pid_by_process_names(DAEMON_PROCESS_NAMES)
    /\ UNCHANGED cmdlines
    /\ UNCHANGED procVars
    /\ UNCHANGED ctlVars
    /\ UNCHANGED loopVars
    /\ UNCHANGED execVars

ScanNext == Scan

ScanSpec == ScanInit /\ [][ScanNext]_vars

Matches(process_name) ==
    { p \in DOMAIN cmdlines : process_name \in cmdlines[p] }
Lowest(S) == CHOOSE p \in S : \A q \in S : p <= q

\* C31: the search returns the first PID listed (the lowest) for
\* "sokrates-daemon" when a process matches it, otherwise the first PID
\* listed for "sokrates_daemon" when a process matches that, and it returns
\* no PID exactly when neither fragment matches any process.
C31_FragmentPriority ==
    scanned =>
        /\ Matches("sokrates-daemon") # {} =>
              scan_ret = Lowest(Matches("sokrates-daemon"))
        /\ (Matches("sokrates-daemon") = {}
                /\ Matches("sokrates_daemon") # {}) =>
              scan_ret = Lowest(Matches("sokrates_daemon"))
        /\ scan_ret = None <=>
              (Matches("sokrates-daemon") \cup Matches("sokrates_daemon")) = {}

\* C31 witness: the process with the lowest PID matches only the second
\* fragment and a later one matches the first; the search returned the later.
C31_Witness ==
    /\ scanned
    /\ 1 \in DOMAIN cmdlines /\ cmdlines[1] = {"sokrates_daemon"}
    /\ 2 \in DOMAIN cmdlines /\ cmdlines[2] = {"sokrates-daemon"}
    /\ scan_ret = 2

\* C32: within the handling of one task every executor invocation but the
\* last one raised: after an invocation that returned, the executor is not
\* invoked again for that task, even if the completed write fails.
C32_NoRunAfterSuccess ==
    \A i \in 1..Len(execHist) : i < Len(execHist) => execHist[i] = FALSE

SkippedDetails ==
    { i \in 1..Len(results.details) : results.details[i].status = "skipped" }

\* C36: the summary execute_tasks_from_file returns for a payload that loaded
\* has successful_tasks + failed_tasks + skipped = total_tasks = number of
\* subtasks and one detail per subtask in payload order; a subtask whose step
\* raised is counted as failed and the subtasks after it are still handled.
C36_SummaryAccounts ==
    ExecReturned =>
        /\ results.total_tasks = Len(tasks.subtasks)
        /\ results.successful_tasks + results.failed_tasks
              + Cardinality(SkippedDetails) = results.total_tasks
        /\ Len(results.details) = Len(tasks.subtasks)
        /\ \A i \in 1..Len(tasks.subtasks) :
              /\ results.details[i].task_id = tasks.subtasks[i].id
              /\ (i \in RanSet /\ ~step_ok[i]) =>
                    results.details[i].status = "failed"
              /\ (i \in RanSet /\ step_ok[i]) =>
                    results.details[i].status = "completed"
              /\ i \notin RanSet => results.details[i].status = "skipped"
        /\ results.failed_tasks =
              Cardinality({ i \in RanSet : ~step_ok[i] })
        /\ ~exec_raised

\* C36 witness: the first subtask raised, the second one was still run and
\* succeeded; the summary counts one failed and one successful.
C36_Witness ==
    /\ ExecReturned
    /\ Len(tasks.subtasks) = 2
    /\ ran = << 1, 2 >>
    /\ ~step_ok[1]
    /\ step_ok[2]
    /\ results.failed_tasks = 1
    /\ results.successful_tasks = 1

(* ------- _process_single_task_file with execute_tasks_from_file inside it *)
HandlingSubtasks == 2  \* subtasks of the payload files handled here

\* a Processor that takes a summary with failed subtasks for a failure
SuccessIfNoneFailed(summary) == summary.failed_tasks = 0

\* lines 102-109: whatever summary execute_tasks_from_file returns, the next
\* statement is the completed write; the summary's counters are only
\* formatted into the result text
TakenAsSuccess(summary) == TRUE

GoodSubtask == [id |-> JsonInt(1), description |-> JsonStr(1)]

HandlingInit ==
    /\ ProcessorInit
    /\ max_retries = DaemonMaxRetries
    /\ probe = NoProbe
    /\ NoDaemon
    /\ NoScan
    /\ tasks \in [task : {JsonNull},
                  subtasks : SeqsUpTo({GoodSubtask}, HandlingSubtasks)]
    /\ step_ok \in [1..Len(tasks.subtasks) -> BOOLEAN]
    /\ results = EmptyResults
    /\ subidx = 0
    /\ ran = << >>
    /\ exec_raised = FALSE

\* the tasks are enqueued before the first pass
EnqueueFirst == passes = 0 /\ Enqueue

\* execute_tasks_from_file at work inside the Processor's call
ExecutorStep ==
    /\ ExecutorRunning
    /\ \/ ExecLoad
       \/ ExecLoadRaises
       \/ ExecStepSucceeds
       \/ ExecStepRaises

\* the call of execute_tasks_from_file comes back to the Processor: with the
\* summary, or with the exception
ExecuteVia(here, done, attempt) ==
    /\ pc = here
    /\ \/ /\ ExecReturned
          /\ TakenAsSuccess(results)
          /\ execHist' = Append(execHist, TRUE)
          /\ pc' = done
          /\ UNCHANGED current_attempt
       \/ /\ exec_raised \/ (ExecReturned /\ ~TakenAsSuccess(results))
          /\ execHist' = Append(execHist, FALSE)
          /\ current_attempt' = attempt
          /\ pc' = "log"
    /\ subidx' = 0
    /\ ran' = << >>
    /\ exec_raised' = FALSE
    /\ UNCHANGED << tasks, step_ok, results >>
    /\ UNCHANGED << storeVars, handle, max_retries, error_log, limit,
                    pending_tasks, idx, passes, closeCalls, pass_exit,
                    handled, sleeps, handLog, termWrites, storeFault,
                    exitKind, probe >>
    /\ UNCHANGED << attempt_count, updated_at, started >>
    /\ UNCHANGED ctlVars
    /\ UNCHANGED scanVars
    /\ UNCHANGED loopVars

ExecuteFile == ExecuteVia("exec", "complete", FirstAttempt)
RetryExecuteFile ==
    ExecuteVia("retry_exec", "retry_complete", NextAttempt(current_attempt))

HandlingNext ==
    \/ EnqueueFirst
    \/ StartPass(NoLimit)
    \/ FetchReturns
    \/ FetchRaises
    \/ Construct
    \/ ConstructRaises
    \/ MarkInProgress
    \/ ExecutorStep
    \/ ExecuteFile
    \/ Complete
    \/ LogError
    \/ Decide
    \/ Sleep
    \/ RetryExecuteFile
    \/ RetryComplete
    \/ Between
    \/ Except
    \/ Finally

HandlingSpec == HandlingInit /\ [][HandlingNext]_vars

SomeRaised(h) == \E i \in 1..Len(h) : h[i] = FALSE

RaisedCount(h) == Cardinality({ i \in 1..Len(h) : h[i] = FALSE })

\* C34: during the handling of one task the error records logged are exactly
\* one per executor invocation that raised (the record of the latest one
\* is written at the step after it), numbered 1, 2, 3, ... in order; no
\* record is logged without an invocation that raised.
C34_OneRecordPerFailure ==
    /\ \A i \in 1..Len(handLog) : handLog[i] = i
    /\ Len(handLog) <= RaisedCount(execHist)
    /\ pc # "log" => Len(handLog) = RaisedCount(execHist)

Fetched == { pending_tasks[i] : i \in 1..Len(pending_tasks) }

\* C35: a step of a pass changes the status, result or attempt_count of an
\* existing task only if the pass fetched that task: a pass whose fetch
\* returned nothing writes nothing, and the non-pending tasks and the pending
\* tasks beyond the limit keep these fields throughout the pass.
C35_OnlyFetchedChange ==
    [][\A t \in TaskIds :
          (/\ status[t] # "absent"
           /\ \/ status'[t] # status[t]
              \/ result'[t] # result[t]
              \/ attempt_count'[t] # attempt_count[t])
              => (InPass /\ t \in Fetched)]_vars

\* C35 witness: a pass with limit 1 over two pending tasks has handled the
\* first; the second, beyond the limit, is still pending with no result.
C35_Witness ==
    /\ pc = "finally"
    /\ limit = 1
    /\ pass_exit = "done"
    /\ Fetched = {1}
    /\ status[1] = "completed"
    /\ status[2] = "pending"
    /\ result[2] = NoResult

\* C37: a stop that reported success delivered SIGTERM and then either saw
\* the process gone or delivered SIGKILL to it; a stop whose SIGTERM could not
\* be delivered has returned False to main (exit code 1) and sent no SIGKILL.
C37_StopSuccessAfterGoneOrKill ==
    \A c \in Controllers :
       LET s == ctl[c].sent IN
       /\ (ctl[c].op = "stop" /\ ctl[c].ret = "True") =>
             /\ Len(s) >= 1
             /\ s[1].sig = "SIGTERM"
             /\ s[1].delivered
             /\ \/ Len(s) = 1 /\ daemons[s[1].pid] = "dead"
                \/ /\ Len(s) = 2
                   /\ s[2] = Signal("SIGKILL", s[1].pid, TRUE)
       /\ (Len(s) >= 1 /\ ~s[1].delivered) =>
             /\ Len(s) = 1
             /\ ctl[c].pc \notin {"poll", "kill"}
             /\ ctl[c].op = "stop" =>
                   /\ ctl[c].pc = "exited"
                   /\ ctl[c].ret = "False"
                   /\ ctl[c].exit = 1

\* C37 witness: a stop given the PID of no process failed to deliver SIGTERM
\* and returned False; another stop succeeded after SIGKILL.
C37_Witness ==
    /\ \E c \in Controllers :
          /\ ctl[c].op = "stop"
          /\ ctl[c].arg # None
          /\ ctl[c].pc = "exited"
          /\ ctl[c].ret = "False"
          /\ ctl[c].sent = << Signal("SIGTERM", ctl[c].arg, FALSE) >>
    /\ \E c \in Controllers :
          /\ ctl[c].op = "stop"
          /\ ctl[c].pc = "exited"
          /\ ctl[c].ret = "True"
          /\ Len(ctl[c].sent) = 2

StopPhase == {"stop_find", "term", "poll", "kill"}

\* C38: whatever its stop reported, a restart goes on to start_daemon: the
\* step that ends the stop leads to the discovery of start_daemon; a restart
\* that has exited has forked a daemon unless that discovery found one; and
\* at the step a restart exits a daemon process exists. With invocations
\* one after another and a working scan, a restart that sent no signal and left no
\* daemon it did not fork (none was running) has forked one, which runs.
C38_RestartStartsAnyway ==
    /\ [](\A c \in Controllers :
            (ctl[c].op = "restart" /\ Exited(c)) =>
                /\ ctl[c].forked # None \/ ctl[c].found # None
                /\ (/\ Sequential
                    /\ ctl[c].sent = << >>
                    /\ \A p \in Pids : Alive(p) => p = ctl[c].forked) =>
                      /\ ctl[c].forked # None
                      /\ daemons[ctl[c].forked] = "running")
    /\ [][\A c \in Controllers :
            ctl[c].op = "restart" =>
                /\ (ctl[c].pc \in StopPhase /\ ctl'[c].pc \notin StopPhase)
                      => ctl'[c].pc = "start_find"
                /\ (~Exited(c) /\ ctl'[c].pc = "exited")
                      => \E p \in Pids : daemons'[p] \in {"running",
                                                           "terminating"}]_vars

\* C38 witness: a restart on a host without a daemon: its stop found nothing
\* and sent nothing, and it has forked the first daemon, which is running.
C38_Witness ==
    \E c \in Controllers :
       /\ ctl[c].op = "restart"
       /\ Exited(c)
       /\ ctl[c].sent = << >>
       /\ ctl[c].forked = 1
       /\ daemons = [p \in Pids |-> IF p = 1 THEN "running" ELSE "none"]

====
